---- MODULE Spec2Model ----
(***************************************************************************)
(* Model of the CSP engine of src/CSP_solver.py: one_consistency,          *)
(* minimum_remaining_values, least_restraining_values, forward_checking    *)
(* and solve (backtracking with an explicit stack of backtrack frames).    *)
(* Dicts and sets are objects of a heap and names hold references, so     *)
(* that a copy and an alias differ, and each function returns the heap it  *)
(* leaves.                                                                 *)
(* The Problem / constraint classes (module CSP) are not part of src/ and  *)
(* are modelled from section 6 of the specification.                       *)
(***************************************************************************)
EXTENDS FiniteSets, Integers, Sequences, TLC

\* ------------------------------------------------------------------ bounds
\* Values are the digits 0..MaxVal; a problem holds at most MaxCons constraints.
MaxVal == 2
MaxCons == 2

Values == 0 .. MaxVal

\* The variable identifiers, and the order problem.variables lists them in
\* (it disagrees with the alphabetical order of the names).
VarNames == {"X", "Y", "Z"}
VarOrders == {<<"Z", "X", "Y">>}

\* The names the cryptarithmetic encoder gives its auxiliary variables:
\* f'C{i}' (line 84) and f'SUM{pos_from_right}' (line 116).
carry_name(i) == <<"C0", "C1", "C2", "C3", "C4">>[i + 1]
sum_var(i) == <<"SUM0", "SUM1", "SUM2", "SUM3">>[i + 1]

\* Alphabetical rank of a name (Python's str order), used only to state that
\* the names do not decide anything.
NameRank(v) ==
    CASE v = "A" -> 1 [] v = "B" -> 2
      [] v \in {carry_name(i) : i \in 0 .. 4} -> 3 + (CHOOSE i \in 0 .. 4 : carry_name(i) = v)
      [] v \in {sum_var(i) : i \in 0 .. 3} -> 8 + (CHOOSE i \in 0 .. 3 : sum_var(i) = v)
      [] v = "X" -> 12 [] v = "Y" -> 13 [] v = "Z" -> 14

EmptyMap == [x \in {} |-> 0]

\* Optional[Assignment]: None, or an assignment.
None == [some |-> FALSE, assignment |-> EmptyMap]
Some(a) == [some |-> TRUE, assignment |-> a]

\* ------------------------------------------------------ constraint predicates
\* The callables the encoder stores in constraints (src/cryptarithmetic.py).
\* "ne0": lambda x: x != 0        "eq0": lambda x: x == 0
UnaryConds == {"ne0", "eq0"}
\* "neq": lambda x, y: x != y
\* "ci" : make_ci_constraint with both operand letters present:
\*        check(vci, vsum): 0 <= vsum - vci <= 18 and vsum - vci = v0 + v1
\*        for some digits v0, v1
BinaryConds == {"neq", "ci"}
\* The other checks of the encoder, by the operand letters the column has:
\* "ci_l0", "ci_l1", "ci_none": make_ci_constraint with l1, l0 or both absent
\* "l0_both", "l0_alone"      : make_l0_constraint, l1 present / absent
\* "l1_both", "l1_alone"      : make_l1_constraint, l0 present / absent
\* "lr": check_lr_sum         "co": check_co_sum
\* ci_check is the body of make_ci_constraint's check, l_check the common body
\* of the checks of make_l0_constraint and make_l1_constraint.
ci_check(has_l0, has_l1, vci, vsum) ==
    LET remainder == vsum - vci IN
    IF remainder < 0 \/ remainder > 18 THEN FALSE
    ELSE \E v0 \in (IF has_l0 THEN 0 .. 9 ELSE {0}) :
         \E v1 \in (IF has_l1 THEN 0 .. 9 ELSE {0}) : v0 + v1 = remainder

l_check(has_other, v, vsum) ==
    LET remainder == vsum - v IN
    IF remainder < 0 \/ remainder > 19 THEN FALSE
    ELSE \E vci \in {0, 1} :
            IF has_other THEN \E w \in 0 .. 9 : w + vci = remainder
            ELSE vci = remainder

condition1(cond, x) ==
    CASE cond = "ne0" -> x # 0
      [] cond = "eq0" -> x = 0

condition2(cond, x, y) ==
    CASE cond = "neq" -> x # y
      [] cond = "ci"  -> LET remainder == y - x IN
                         IF remainder < 0 \/ remainder > 18 THEN FALSE
                         ELSE \E v0 \in 0 .. 9 : \E v1 \in 0 .. 9 : v0 + v1 = remainder
      [] cond = "ci_l0"    -> ci_check(TRUE, FALSE, x, y)
      [] cond = "ci_l1"    -> ci_check(FALSE, TRUE, x, y)
      [] cond = "ci_none"  -> ci_check(FALSE, FALSE, x, y)
      [] cond \in {"l0_both", "l1_both"}   -> l_check(TRUE, x, y)
      [] cond \in {"l0_alone", "l1_alone"} -> l_check(FALSE, x, y)
      [] cond = "lr"  -> (y = x) \/ (y = x + 10)
      [] cond = "co"  -> \E vlr \in 0 .. 9 : vlr + 10 * x = y

\* UnaryConstraint(variable, condition) / BinaryConstraint(variables, condition)
UnaryConstraint(variable, cond) ==
    [kind |-> "unary", variables |-> <<variable>>, cond |-> cond]
BinaryConstraint(v0, v1, cond) ==
    [kind |-> "binary", variables |-> <<v0, v1>>, cond |-> cond]

isUnary(constraint) == constraint.kind = "unary"
isBinary(constraint) == constraint.kind = "binary"

\* BinaryConstraint.get_other: the variable of the pair that is not `variable`.
get_other(constraint, variable) ==
    IF variable = constraint.variables[1] THEN constraint.variables[2]
    ELSE constraint.variables[1]

\* Mutation of involves: only the first variable of the constraint is looked at.
involves_first(constraint, variable) == constraint.variables[1] = variable

\* `assigned_variable in constraint.variables`
involves(constraint, variable) ==
    \E k \in 1 .. Len(constraint.variables) : constraint.variables[k] = variable

\* Problem.is_complete: every variable has an entry in the assignment.
is_complete(problem, assignment) ==
    \A k \in 1 .. Len(problem.variables) : problem.variables[k] \in DOMAIN assignment

\* Constraint.is_satisfied under an assignment (a missing value fails it).
is_satisfied(constraint, assignment) ==
    IF isUnary(constraint)
    THEN /\ constraint.variables[1] \in DOMAIN assignment
         /\ condition1(constraint.cond, assignment[constraint.variables[1]])
    ELSE /\ constraint.variables[1] \in DOMAIN assignment
         /\ constraint.variables[2] \in DOMAIN assignment
         /\ condition2(constraint.cond, assignment[constraint.variables[1]],
                       assignment[constraint.variables[2]])

\* Problem.satisfies_constraints: every constraint of the problem holds.
satisfies_constraints(problem, assignment) ==
    \A k \in 1 .. Len(problem.constraints) : is_satisfied(problem.constraints[k], assignment)

\* ------------------------------------------- CryptArithmeticProblem.from_text
\* The constraints of column i (pos_from_right), lines 97-195. A word is a
\* sequence of letters; "" stands for None (no letter at this position).
LetterAt(word, i) == IF Len(word) - i >= 1 THEN word[Len(word) - i] ELSE ""

column_constraints(LHS0, LHS1, RHS, i) ==
    LET l0 == LetterAt(LHS0, i)
        l1 == LetterAt(LHS1, i)
        lr == RHS[Len(RHS) - i]
        carry_in == carry_name(i)
        carry_out == carry_name(i + 1)
        sum == sum_var(i)
    IN  (IF l0 # ""
         THEN <<BinaryConstraint(l0, sum, IF l1 # "" THEN "l0_both" ELSE "l0_alone")>>
         ELSE <<>>)
        \o (IF l1 # ""
            THEN <<BinaryConstraint(l1, sum, IF l0 # "" THEN "l1_both" ELSE "l1_alone")>>
            ELSE <<>>)
        \o <<BinaryConstraint(carry_in, sum,
                              IF l0 # "" /\ l1 # "" THEN "ci"
                              ELSE IF l0 # "" THEN "ci_l0"
                              ELSE IF l1 # "" THEN "ci_l1" ELSE "ci_none"),
             BinaryConstraint(lr, sum, "lr"),
             BinaryConstraint(carry_out, sum, "co")>>

RECURSIVE columns(_, _, _, _)
columns(LHS0, LHS1, RHS, i) ==
    IF i >= Len(RHS) THEN <<>>
    ELSE column_constraints(LHS0, LHS1, RHS, i) \o columns(LHS0, LHS1, RHS, i + 1)

\* Lines 71-76: the pairs (letters_list[i], letters_list[j]), i < j, in the
\* order of the two loops.
RECURSIVE all_different(_, _, _)
all_different(letters_list, i, j) ==
    IF i > Len(letters_list) THEN <<>>
    ELSE IF j > Len(letters_list) THEN all_different(letters_list, i + 1, i + 2)
    ELSE <<BinaryConstraint(letters_list[i], letters_list[j], "neq")>>
         \o all_different(letters_list, i, j + 1)

\* from_text for the text "LHS0 + LHS1 = RHS"; letters_list is the order in
\* which list(all_letters) yields the letters of the set (lines 47-50, 70).
from_text(LHS0, LHS1, RHS, letters_list) ==
    LET n == Len(RHS)
        carries == [i \in 1 .. n + 1 |-> carry_name(i - 1)]
        sums == [i \in 1 .. n |-> sum_var(i - 1)]
        variables == letters_list \o carries \o sums
        names == {variables[k] : k \in 1 .. Len(variables)}
    IN  [LHS |-> <<LHS0, LHS1>>,
         RHS |-> RHS,
         variables |-> variables,
         domains |-> [v \in names |->
                         IF v \in {sums[k] : k \in 1 .. n} THEN 0 .. 19
                         ELSE IF v \in {carries[k] : k \in 1 .. n + 1} THEN {0, 1}
                         ELSE 0 .. 9],
         constraints |->
             <<UnaryConstraint(LHS0[1], "ne0"), UnaryConstraint(LHS1[1], "ne0"),
               UnaryConstraint(RHS[1], "ne0")>>
             \o all_different(letters_list, 1, 2)
             \o <<UnaryConstraint(carry_name(0), "eq0"), UnaryConstraint(carry_name(n), "eq0")>>
             \o columns(LHS0, LHS1, RHS, 0)]

\* ===================================================== objects and references
\* A Python dict or set is an object, and a name, an argument or a dict entry
\* holds a reference to it: a write through one reference is seen through
\* every other one. A heap h holds the Problem object (h.problem, whose
\* attribute `domains` is a reference to a dict), the dict objects (h.dicts,
\* a reference being an index) and the set objects (h.sets). The entries of a
\* dict of domains are references to sets; the entries of an assignment and of
\* value_restraint_count are integers.

\* A new set object holding S: `set(...)`, a set comprehension, `s.copy()`.
new_set(h, S) == [heap |-> [h EXCEPT !.sets = Append(@, S)], ref |-> Len(h.sets) + 1]

\* A new dict object holding items: `{}`, a dict comprehension, `d.copy()`.
new_dict(h, items) ==
    [heap |-> [h EXCEPT !.dicts = Append(@, items)], ref |-> Len(h.dicts) + 1]

\* `d[key] = x`: the dict object d refers to gets the entry.
set_item(h, d, key, x) ==
    [h EXCEPT !.dicts[d] = [k \in DOMAIN @ \cup {key} |-> IF k = key THEN x ELSE @[k]]]

\* `key in d` ranges over keys(h, d); `d[key]`, for a dict of domains, is the
\* set get_item(h, d, key).
keys(h, d) == DOMAIN h.dicts[d]
get_item(h, d, key) == h.sets[h.dicts[d][key]]

\* What a dict of domains holds: for each key, the content of its set.
Value(h, d) == [key \in keys(h, d) |-> get_item(h, d, key)]

\* `for var in d`: the keys of a dict of domains, in the order of
\* problem.variables (the order in which line 173 inserted them).
key_list(h, d) ==
    LET in_d(var) == var \in keys(h, d) IN SelectSeq(h.problem.variables, in_d)

\* `{var: d[var].copy() for var in ks}`: a new dict whose entries are new sets,
\* copies of the sets of d, made in the order of the list ks from ks[i] on.
RECURSIVE copy_items(_, _, _, _, _)
copy_items(h, d, ks, i, items) ==
    IF i > Len(ks) THEN new_dict(h, items)
    ELSE LET s == new_set(h, get_item(h, d, ks[i])) IN
         copy_items(s.heap, d, ks, i + 1,
                    [k \in DOMAIN items \cup {ks[i]} |-> IF k = ks[i] THEN s.ref ELSE items[k]])

\* ------------------------------------------------------------ one_consistency
\* Mutation of oc_new_domain: the values the predicate rejects are kept.
oc_new_domain_inverted(constraint, domain) ==
    {value \in domain : ~condition1(constraint.cond, value)}

\* Line 17: the values of the domain that the unary predicate accepts.
oc_new_domain(constraint, domain) ==
    {value \in domain : condition1(constraint.cond, value)}

\* Mutation of oc_solvable: the flag follows the last unary constraint only.
oc_solvable_last(solvable, new_domain) == new_domain # {}

\* Lines 18-19: `if not new_domain: solvable = False`.
oc_solvable(solvable, new_domain) == IF new_domain = {} THEN FALSE ELSE solvable

\* Mutation of one_consistency: `return False` as soon as a domain is emptied, before
\* the later constraints are looked at and before problem.constraints is set.
RECURSIVE oc_loop_early(_, _, _, _)
oc_loop_early(h, i, remaining_constraints, solvable) ==
    LET cs == h.problem.constraints IN
    IF i > Len(cs)
    THEN [ret |-> solvable, heap |-> [h EXCEPT !.problem.constraints = remaining_constraints]]
    ELSE IF ~isUnary(cs[i])
    THEN oc_loop_early(h, i + 1, Append(remaining_constraints, cs[i]), solvable)
    ELSE LET variable == cs[i].variables[1]
             new_domain == oc_new_domain(cs[i], get_item(h, h.problem.domains, variable))
             s == new_set(h, new_domain)
         IN  IF new_domain = {}
             THEN [ret |-> FALSE, heap |-> s.heap]
             ELSE oc_loop_early(set_item(s.heap, h.problem.domains, variable, s.ref), i + 1,
                                remaining_constraints, solvable)

\* The loop of one_consistency over problem.constraints from constraint i on
\* (lines 12-20), then line 21. Line 17 makes a new set, line 20 stores it in
\* the dict problem.domains, line 21 rebinds problem.constraints. The record
\* holds the returned bool and the heap the call leaves.
RECURSIVE oc_loop(_, _, _, _)
oc_loop(h, i, remaining_constraints, solvable) ==
    LET cs == h.problem.constraints IN
    IF i > Len(cs)
    THEN [ret |-> solvable, heap |-> [h EXCEPT !.problem.constraints = remaining_constraints]]
    ELSE IF ~isUnary(cs[i])
    THEN oc_loop(h, i + 1, Append(remaining_constraints, cs[i]), solvable)
    ELSE LET variable == cs[i].variables[1]
             new_domain == oc_new_domain(cs[i], get_item(h, h.problem.domains, variable))
             s == new_set(h, new_domain)
         IN  oc_loop(set_item(s.heap, h.problem.domains, variable, s.ref), i + 1,
                     remaining_constraints, oc_solvable(solvable, new_domain))

one_consistency_early(h) == oc_loop_early(h, 1, <<>>, TRUE)

\* Mutation of one_consistency: the result is computed from the domains at the
\* end (false when any domain of the problem is empty).
one_consistency_any_empty(h) ==
    LET r == oc_loop(h, 1, <<>>, TRUE)
    IN  [r EXCEPT !.ret = \A v \in keys(r.heap, r.heap.problem.domains) :
                              get_item(r.heap, r.heap.problem.domains, v) # {}]

\* one_consistency(problem), the Problem object being h.problem.
one_consistency(h) == oc_loop(h, 1, <<>>, TRUE)

\* ------------------------------------------------------ lexicographic order
\* Python's tuple comparison on pairs and triples of integers.
TupleLess(k1, k2) ==
    \/ k1[1] < k2[1]
    \/ k1[1] = k2[1] /\ k1[2] < k2[2]
    \/ k1[1] = k2[1] /\ k1[2] = k2[2] /\ Len(k1) > 2 /\ k1[3] < k2[3]

\* min(...) / sorted(...) over a set whose keys (a function on S) are distinct.
MinBy(S, key) == CHOOSE x \in S : \A y \in S : y = x \/ TupleLess(key[x], key[y])

RECURSIVE sorted(_, _)
sorted(S, key) ==
    IF S = {} THEN <<>>
    ELSE LET m == MinBy(S, key) IN <<m>> \o sorted(S \ {m}, key)

\* ------------------------------------------------- minimum_remaining_values
\* Mutation of mrv_key: ties are broken by the name before the index.
mrv_key_by_name(h, domains, index) ==
    <<Cardinality(get_item(h, domains, h.problem.variables[index])),
      NameRank(h.problem.variables[index]), index>>

\* The tuple (len(domains[variable]), index, variable) of the generator.
mrv_key(h, domains, index) ==
    <<Cardinality(get_item(h, domains, h.problem.variables[index])), index,
      NameRank(h.problem.variables[index])>>

\* minimum_remaining_values(problem, domains), `domains` being a reference to
\* a dict: the returned variable and the heap the call leaves (line 30 reads
\* problem.variables, the keys of the dict and the sizes of its sets; the
\* function has no statement that stores).
minimum_remaining_values(h, domains) ==
    LET candidates == {index \in 1 .. Len(h.problem.variables) :
                          h.problem.variables[index] \in keys(h, domains)}
        best == MinBy(candidates, [index \in candidates |-> mrv_key(h, domains, index)])
    IN  [ret |-> h.problem.variables[best], heap |-> h]

\* ----------------------------------------------------------- forward_checking
\* Mutation of fc_keep: the assigned value is always the first argument.
fc_keep_assigned_first(constraint, assigned_variable, assigned_value, value) ==
    condition2(constraint.cond, assigned_value, value)

\* Lines 71-78: does `value` of the other variable survive the constraint, the
\* predicate being called in the constraint's declared variable order.
fc_keep(constraint, assigned_variable, assigned_value, value) ==
    IF constraint.variables[1] = assigned_variable
    THEN condition2(constraint.cond, assigned_value, value)
    ELSE condition2(constraint.cond, value, assigned_value)

\* Mutation of fc_loop: an emptied domain is stored and the loop goes on; the
\* call returns false after the last constraint.
RECURSIVE fc_loop_late(_, _, _, _, _, _)
fc_loop_late(h, i, assigned_variable, assigned_value, domains, ok) ==
    LET cs == h.problem.constraints IN
    IF i > Len(cs) THEN [ret |-> ok, heap |-> h, at |-> i]
    ELSE IF ~isBinary(cs[i]) \/ ~involves(cs[i], assigned_variable)
    THEN fc_loop_late(h, i + 1, assigned_variable, assigned_value, domains, ok)
    ELSE LET other_variable == get_other(cs[i], assigned_variable) IN
         IF other_variable \notin keys(h, domains)
         THEN fc_loop_late(h, i + 1, assigned_variable, assigned_value, domains, ok)
         ELSE LET new_domain == {value \in get_item(h, domains, other_variable) :
                                    fc_keep(cs[i], assigned_variable, assigned_value, value)}
                  s == new_set(h, new_domain)
              IN  fc_loop_late(set_item(s.heap, domains, other_variable, s.ref), i + 1,
                               assigned_variable, assigned_value, domains,
                               ok /\ new_domain # {})

forward_checking_late(h, assigned_variable, assigned_value, domains) ==
    fc_loop_late(h, 1, assigned_variable, assigned_value, domains, TRUE)

\* Mutation of forward_checking: the new domain is stored before it is tested,
\* so the emptied domain is in the dict when the call returns false.
RECURSIVE fc_loop_stored(_, _, _, _, _)
fc_loop_stored(h, i, assigned_variable, assigned_value, domains) ==
    LET cs == h.problem.constraints IN
    IF i > Len(cs) THEN [ret |-> TRUE, heap |-> h, at |-> i]
    ELSE IF ~isBinary(cs[i]) \/ ~involves(cs[i], assigned_variable)
    THEN fc_loop_stored(h, i + 1, assigned_variable, assigned_value, domains)
    ELSE LET other_variable == get_other(cs[i], assigned_variable) IN
         IF other_variable \notin keys(h, domains)
         THEN fc_loop_stored(h, i + 1, assigned_variable, assigned_value, domains)
         ELSE LET new_domain == {value \in get_item(h, domains, other_variable) :
                                    fc_keep(cs[i], assigned_variable, assigned_value, value)}
                  s == new_set(h, new_domain)
                  stored == set_item(s.heap, domains, other_variable, s.ref)
              IN  IF new_domain = {}
                  THEN [ret |-> FALSE, heap |-> stored, at |-> i]
                  ELSE fc_loop_stored(stored, i + 1, assigned_variable, assigned_value, domains)

forward_checking_stored(h, assigned_variable, assigned_value, domains) ==
    fc_loop_stored(h, 1, assigned_variable, assigned_value, domains)

\* The loop of forward_checking over problem.constraints from constraint i on.
\* `domains` is a reference to the dict the caller passed: lines 67-78 build a
\* new set, line 85 stores it in that dict. The record holds the returned
\* bool, the heap the call leaves and `at`, the index of the constraint the
\* loop returned at (Len(cs) + 1 when it ran through).
RECURSIVE fc_loop(_, _, _, _, _)
fc_loop(h, i, assigned_variable, assigned_value, domains) ==
    LET cs == h.problem.constraints IN
    IF i > Len(cs) THEN [ret |-> TRUE, heap |-> h, at |-> i]
    ELSE IF ~isBinary(cs[i]) \/ ~involves(cs[i], assigned_variable)
    THEN fc_loop(h, i + 1, assigned_variable, assigned_value, domains)
    ELSE LET other_variable == get_other(cs[i], assigned_variable) IN
         IF other_variable \notin keys(h, domains)
         THEN fc_loop(h, i + 1, assigned_variable, assigned_value, domains)
         ELSE LET new_domain == {value \in get_item(h, domains, other_variable) :
                                    fc_keep(cs[i], assigned_variable, assigned_value, value)}
                  s == new_set(h, new_domain)
              IN  IF new_domain = {}
                  THEN [ret |-> FALSE, heap |-> s.heap, at |-> i]
                  ELSE fc_loop(set_item(s.heap, domains, other_variable, s.ref), i + 1,
                               assigned_variable, assigned_value, domains)

\* Mutation of forward_checking: the domains inside the problem are narrowed
\* instead of the dict that was passed in.
forward_checking_on_problem(h, assigned_variable, assigned_value, domains) ==
    fc_loop(h, 1, assigned_variable, assigned_value, h.problem.domains)

\* forward_checking(problem, assigned_variable, assigned_value, domains), the
\* Problem object being h.problem.
forward_checking(h, assigned_variable, assigned_value, domains) ==
    fc_loop(h, 1, assigned_variable, assigned_value, domains)

\* --------------------------------------------------- least_restraining_values
\* Is other_value eliminated by variable_to_assign = value under the constraint.
lcv_eliminates(constraint, variable_to_assign, value, other_value) ==
    IF constraint.variables[1] = variable_to_assign
    THEN ~condition2(constraint.cond, value, other_value)
    ELSE ~condition2(constraint.cond, other_value, value)

\* restraint_count of one value: the loop over problem.constraints from i on
\* (lines 112-139), which reads the dict and its sets.
RECURSIVE restraint_count(_, _, _, _, _)
restraint_count(h, i, variable_to_assign, value, domains) ==
    LET cs == h.problem.constraints IN
    IF i > Len(cs) THEN 0
    ELSE IF ~isBinary(cs[i]) \/ ~involves(cs[i], variable_to_assign)
    THEN restraint_count(h, i + 1, variable_to_assign, value, domains)
    ELSE LET other_variable == get_other(cs[i], variable_to_assign) IN
         IF other_variable \notin keys(h, domains)
         THEN restraint_count(h, i + 1, variable_to_assign, value, domains)
         ELSE Cardinality({other_value \in get_item(h, domains, other_variable) :
                              lcv_eliminates(cs[i], variable_to_assign, value, other_value)})
              + restraint_count(h, i + 1, variable_to_assign, value, domains)

\* Mutation of lcv_key: the most restraining value comes first.
lcv_key_most(count, v) == <<0 - count, v>>

\* The sort key (value_restraint_count[v], v).
lcv_key(count, v) == <<count, v>>

\* Lines 108-141: the loop over the values of domains[variable_to_assign] that
\* are still to do, storing each count in the dict value_restraint_count.
RECURSIVE lcv_loop(_, _, _, _, _)
lcv_loop(h, todo, variable_to_assign, domains, value_restraint_count) ==
    IF todo = {} THEN h
    ELSE LET value == CHOOSE v \in todo : \A w \in todo : v <= w
             count == restraint_count(h, 1, variable_to_assign, value, domains)
         IN  lcv_loop(set_item(h, value_restraint_count, value, count), todo \ {value},
                      variable_to_assign, domains, value_restraint_count)

\* Lines 145-146: sorted(domains[variable_to_assign], key = ...).
lcv_sorted(h, variable_to_assign, domains, value_restraint_count) ==
    LET values == get_item(h, domains, variable_to_assign) IN
    sorted(values, [v \in values |-> lcv_key(h.dicts[value_restraint_count][v], v)])

\* Mutation of least_restraining_values: the neighbours are narrowed in the
\* dict that was passed in, by forward_checking for the first value of the
\* order, instead of in a copy.
least_restraining_values_in_place(h, variable_to_assign, domains) ==
    LET c == new_dict(h, EmptyMap)
        h1 == lcv_loop(c.heap, get_item(c.heap, domains, variable_to_assign),
                       variable_to_assign, domains, c.ref)
        order == lcv_sorted(h1, variable_to_assign, domains, c.ref)
    IN  [ret |-> order,
         heap |-> IF order = <<>> THEN h1
                  ELSE forward_checking(h1, variable_to_assign, order[1], domains).heap]

\* least_restraining_values(problem, variable_to_assign, domains), `domains`
\* being a reference to a dict: the sorted list and the heap the call leaves.
\* Line 105 makes the dict value_restraint_count, the only object the function
\* stores into (line 141).
least_restraining_values(h, variable_to_assign, domains) ==
    LET c == new_dict(h, EmptyMap)
        h1 == lcv_loop(c.heap, get_item(c.heap, domains, variable_to_assign),
                       variable_to_assign, domains, c.ref)
    IN  [ret |-> lcv_sorted(h1, variable_to_assign, domains, c.ref), heap |-> h1]

\* ============================================== src/search.py: game search
\* A game is given as a finite tree: the states are the nodes 1 .. n, node 1 is
\* the root, parent[i] < i is the parent of node i > 1; an action of a state is
\* one of its children, listed in ascending order, and the successor of a state
\* by an action is that child. A state without children is terminal. score[i]
\* is what the player (agent 0) gets in a terminal state i, and the heuristic
\* value of a state i that is not terminal. The turn passes from agent to agent
\* with the depth, starting with the agent `first` at the root.
MaxNodes == 5
MaxScore == 1
Scores == 0 .. MaxScore

\* float('-inf') and float('inf'): below and above every score.
NegInf == 0 - (MaxScore + 1)
PosInf == MaxScore + 1

Max(a, b) == IF a >= b THEN a ELSE b
Min(a, b) == IF a <= b THEN a ELSE b

RECURSIVE depth_of(_, _)
depth_of(game, state) == IF state = 1 THEN 0 ELSE 1 + depth_of(game, game.parent[state])

\* game.get_turn(state)
get_turn(game, state) == (game.first + depth_of(game, state)) % game.players

\* game.get_actions(state), and game.get_successor(state, action)
RECURSIVE children_from(_, _, _)
children_from(game, state, j) ==
    IF j > game.n THEN <<>>
    ELSE (IF game.parent[j] = state THEN <<j>> ELSE <<>>) \o children_from(game, state, j + 1)

get_actions(game, state) == children_from(game, state, 2)
get_successor(game, state, action) == action

\* game.is_terminal(state): (terminal, values), values[agent] for every agent;
\* the enemies get the opposite of the player's score.
is_terminal(game, state) ==
    [terminal |-> get_actions(game, state) = <<>>,
     values |-> [agent \in 0 .. game.players - 1 |->
                    IF agent = 0 THEN game.score[state] ELSE 0 - game.score[state]]]

\* heuristic(game, state, 0)
heuristic(game, state, agent) ==
    IF agent = 0 THEN game.score[state] ELSE 0 - game.score[state]

\* ------------------------------------------------------------------ minimax
\* minimax_value (lines 37-70) and its two loops; `calls` counts the calls of
\* minimax_value made, this one included.
RECURSIVE minimax_value(_, _, _, _)
RECURSIVE mm_loop(_, _, _, _, _, _, _, _)
mm_loop(game, actions, i, depth, max_depth, agent, best_value, calls) ==
    IF i > Len(actions) THEN [value |-> best_value, calls |-> calls]
    ELSE LET successor == get_successor(game, 0, actions[i])
             r == minimax_value(game, successor, depth + 1, max_depth)
         IN  mm_loop(game, actions, i + 1, depth, max_depth, agent,
                     IF agent = 0 THEN Max(best_value, r.value) ELSE Min(best_value, r.value),
                     calls + r.calls)

minimax_value(game, current_state, depth, max_depth) ==
    LET t == is_terminal(game, current_state) IN
    IF t.terminal THEN [value |-> t.values[0], calls |-> 1]
    ELSE IF max_depth # -1 /\ depth >= max_depth
    THEN [value |-> heuristic(game, current_state, 0), calls |-> 1]
    ELSE LET agent == get_turn(game, current_state) IN
         mm_loop(game, get_actions(game, current_state), 1, depth, max_depth, agent,
                 IF agent = 0 THEN NegInf ELSE PosInf, 1)

\* Lines 91-100: does `value` replace best_value at the root.
mm_better(agent, value, best_value) ==
    IF agent = 0 THEN value > best_value ELSE value < best_value

\* The loop of lines 87-100; action 0 stands for None.
RECURSIVE mm_root(_, _, _, _, _, _, _, _)
mm_root(game, actions, i, max_depth, agent, best_value, best_action, calls) ==
    IF i > Len(actions)
    THEN [value |-> best_value, action |-> best_action, calls |-> calls]
    ELSE LET r == minimax_value(game, get_successor(game, 1, actions[i]), 1, max_depth) IN
         IF mm_better(agent, r.value, best_value)
         THEN mm_root(game, actions, i + 1, max_depth, agent, r.value, actions[i],
                      calls + r.calls)
         ELSE mm_root(game, actions, i + 1, max_depth, agent, best_value, best_action,
                      calls + r.calls)

minimax(game, state, max_depth) ==
    LET agent == get_turn(game, state)
        t == is_terminal(game, state)
    IN  IF t.terminal THEN [value |-> t.values[agent], action |-> 0, calls |-> 0]
        ELSE mm_root(game, get_actions(game, state), 1, max_depth, agent,
                     IF agent = 0 THEN NegInf ELSE PosInf, 0, 0)

\* ---------------------------------------------------------------- alphabeta
\* alphabeta_value (lines 112-153) and its two loops with their breaks; `calls`
\* counts the calls of alphabeta_value made, this one included.
RECURSIVE alphabeta_value(_, _, _, _, _, _)
RECURSIVE ab_loop(_, _, _, _, _, _, _, _, _, _)
ab_loop(game, actions, i, depth, max_depth, agent, value, alpha, beta, calls) ==
    IF i > Len(actions) THEN [value |-> value, calls |-> calls]
    ELSE LET successor == get_successor(game, 0, actions[i])
             r == alphabeta_value(game, successor, depth + 1, alpha, beta, max_depth)
             new_value == IF agent = 0 THEN Max(value, r.value) ELSE Min(value, r.value)
             new_alpha == IF agent = 0 THEN Max(alpha, new_value) ELSE alpha
             new_beta == IF agent = 0 THEN beta ELSE Min(beta, new_value)
         IN  IF new_beta <= new_alpha
             THEN [value |-> new_value, calls |-> calls + r.calls]
             ELSE ab_loop(game, actions, i + 1, depth, max_depth, agent, new_value,
                          new_alpha, new_beta, calls + r.calls)

alphabeta_value(game, current_state, depth, alpha, beta, max_depth) ==
    LET t == is_terminal(game, current_state) IN
    IF t.terminal THEN [value |-> t.values[0], calls |-> 1]
    ELSE IF max_depth # -1 /\ depth >= max_depth
    THEN [value |-> heuristic(game, current_state, 0), calls |-> 1]
    ELSE LET agent == get_turn(game, current_state) IN
         ab_loop(game, get_actions(game, current_state), 1, depth, max_depth, agent,
                 IF agent = 0 THEN NegInf ELSE PosInf, alpha, beta, 1)

\* Mutation of ab_better: a value equal to the best one so far replaces it.
ab_better_or_equal(agent, value, best_value) ==
    IF agent = 0 THEN value >= best_value ELSE value <= best_value

\* Lines 178-188: does `value` replace best_value at the root.
ab_better(agent, value, best_value) ==
    IF agent = 0 THEN value > best_value ELSE value < best_value

\* The loop of lines 174-189; action 0 stands for None.
RECURSIVE ab_root(_, _, _, _, _, _, _, _, _, _)
ab_root(game, actions, i, max_depth, agent, best_value, best_action, alpha, beta, calls) ==
    IF i > Len(actions)
    THEN [value |-> best_value, action |-> best_action, calls |-> calls]
    ELSE LET r == alphabeta_value(game, get_successor(game, 1, actions[i]), 1, alpha, beta,
                                  max_depth)
             take == ab_better(agent, r.value, best_value)
         IN  ab_root(game, actions, i + 1, max_depth, agent,
                     IF take THEN r.value ELSE best_value,
                     IF take THEN actions[i] ELSE best_action,
                     IF agent = 0 THEN Max(alpha, r.value) ELSE alpha,
                     IF agent = 0 THEN beta ELSE Min(beta, r.value),
                     calls + r.calls)

alphabeta(game, state, max_depth) ==
    LET agent == get_turn(game, state)
        t == is_terminal(game, state)
    IN  IF t.terminal THEN [value |-> t.values[agent], action |-> 0, calls |-> 0]
        ELSE ab_root(game, get_actions(game, state), 1, max_depth, agent,
                     IF agent = 0 THEN NegInf ELSE PosInf, 0, NegInf, PosInf, 0)

\* ================================================================== state
VARIABLES
    heap,       \* the objects: the Problem object (or the game a search
                \* function is given), the dicts and the sets
    input,      \* the problem or the game as it was handed over (never changes)
    pc,         \* "start", "enter", "loop", "resume", "done", "called"
    frames,     \* the active backtrack calls, the innermost last: the
                \* references bound to `assignment` and `domains`, the locals
    returned,   \* the last return of backtrack / of solve: None, or the
                \* reference to an assignment
    log,        \* the calls of problem.is_complete and forward_checking so far
    call        \* a direct call of one of the four functions: arguments, result

vars == <<heap, input, pc, frames, returned, log, call>>

\* ------------------------------------------------- what the names denote
\* The Problem object with the content of its dict of domains.
problem == [heap.problem EXCEPT !.domains = Value(heap, @)]

\* The active backtrack calls with the content of the dicts their arguments
\* `assignment` and `domains` refer to.
stack ==
    [k \in 1 .. Len(frames) |->
        [frames[k] EXCEPT !.assignment = heap.dicts[@], !.domains = Value(heap, @)]]

\* `return None`, as a reference.
NoneRef == [some |-> FALSE, assignment |-> 0]

\* The returned value with the content of the assignment it refers to.
result == IF returned.some THEN Some(heap.dicts[returned.assignment]) ELSE None

\* ---------------------------------------------------------------- problems
\* The domains an encoder hands over for a variable: all digits, a carry's
\* {0, 1}, the digits other than 0; or (a malformed problem) one variable has
\* no value at all.
InitialDomains ==
    [VarNames -> {Values, 0 .. 1, 1 .. MaxVal}]
    \cup {[v \in VarNames |-> IF v = w THEN {} ELSE Values] : w \in VarNames}

\* The encoder declares one order for each pair of variables it links; here
\* every variable is the first of one pair and the second of another.
DeclaredPairs == {<<"X", "Y">>, <<"Y", "Z">>, <<"Z", "X">>}

\* The constraints an encoder may emit.
Catalogue ==
    {UnaryConstraint(v, c) : v \in VarNames, c \in UnaryConds}
    \cup {BinaryConstraint(pair[1], pair[2], c) : pair \in DeclaredPairs, c \in BinaryConds}

ConstraintLists == UNION {[1 .. n -> Catalogue] : n \in 0 .. MaxCons}

Problems ==
    {[variables |-> vs, domains |-> d, constraints |-> cs] :
        vs \in VarOrders, d \in InitialDomains, cs \in ConstraintLists}

VarSet(p) == {p.variables[k] : k \in 1 .. Len(p.variables)}

\* The heap holding the problem p as an encoder builds it: the Problem object,
\* its dict of domains, and one set object for each variable.
Load(p) ==
    [problem |-> [p EXCEPT !.domains = 1],
     dicts |-> <<[v \in VarSet(p) |-> CHOOSE k \in 1 .. Len(p.variables) : p.variables[k] = v]>>,
     sets |-> [k \in 1 .. Len(p.variables) |-> p.domains[p.variables[k]]]]

NoCall == [fn |-> "-"]

Init ==
    /\ input \in Problems
    /\ heap = Load(input)
    /\ pc = "start"
    /\ frames = <<>>
    /\ returned = NoneRef
    /\ log = <<>>
    /\ call = NoCall

\* ------------------------------------------------------------- the puzzles
\* The words of the puzzles: one to MaxLen letters of the alphabet.
MaxLen == 2
Alphabet == {"A", "B"}
Words == UNION {[1 .. n -> Alphabet] : n \in 1 .. MaxLen}

LettersOf(word) == {word[k] : k \in 1 .. Len(word)}

\* The orders in which iterating a Python set of these letters can yield them
\* (the order depends on the hash seed of the run).
Orders(letters) ==
    {o \in [1 .. Cardinality(letters) -> letters] :
        \A i, j \in 1 .. Cardinality(letters) : i # j => o[i] # o[j]}

CryptProblems ==
    {from_text(LHS0, LHS1, RHS, o) :
        <<LHS0, LHS1, RHS, o>> \in
            {q \in Words \X Words \X Words \X Orders(Alphabet) \cup
                   Words \X Words \X Words \X UNION {Orders({l}) : l \in Alphabet} :
                {q[4][k] : k \in 1 .. Len(q[4])}
                    = LettersOf(q[1]) \cup LettersOf(q[2]) \cup LettersOf(q[3])}}

\* solve(CryptArithmeticProblem.from_text(text)).
InitCrypt ==
    /\ input \in CryptProblems
    /\ heap = Load(input)
    /\ pc = "start"
    /\ frames = <<>>
    /\ returned = NoneRef
    /\ log = <<>>
    /\ call = NoCall

\* --------------------------------------------------------------- the games
\* Is a the node b or one of its ancestors.
RECURSIVE IsAncestor(_, _, _)
IsAncestor(f, a, b) == a = b \/ (b > 1 /\ IsAncestor(f, a, f[b]))

\* The ordered trees of n nodes, numbered in preorder: the parent of a node is
\* the node before it or an ancestor of that node.
Parents(n) ==
    {f \in [2 .. n -> 1 .. n - 1] : \A i \in 2 .. n : IsAncestor(f, f[i], i - 1)}

\* A game of n states. Two agents or three (the agents other than 0 are
\* enemies), the root being the player's or the first enemy's.
IsGame(game, n) ==
    \E f \in Parents(n) : \E sc \in [1 .. n -> Scores] : \E k \in {2, 3} : \E a \in {0, 1} :
        game = [n |-> n, parent |-> f, score |-> sc, players |-> k, first |-> a]

\* The depth limits: none (-1), or one that cuts the tree above its deepest
\* states.
Height(game) == CHOOSE h \in 0 .. game.n :
                    /\ \E i \in 1 .. game.n : depth_of(game, i) = h
                    /\ \A i \in 1 .. game.n : depth_of(game, i) <= h
MaxDepths(game) == {-1} \cup 1 .. Height(game) - 1

InitGame ==
    /\ \E n \in 1 .. MaxNodes : IsGame(input, n)
    /\ heap = [problem |-> input, dicts |-> <<>>, sets |-> <<>>]
    /\ pc = "start"
    /\ frames = <<>>
    /\ returned = NoneRef
    /\ log = <<>>
    /\ call = NoCall

\* minimax(game, state, heuristic, max_depth) from the root.
CallMinimax ==
    /\ pc = "start"
    /\ \E max_depth \in MaxDepths(heap.problem) :
          call' = [fn |-> "minimax", max_depth |-> max_depth,
                   ret |-> minimax(heap.problem, 1, max_depth)]
    /\ pc' = "called"
    /\ UNCHANGED <<heap, input, frames, returned, log>>

\* alphabeta(game, state, heuristic, max_depth) from the root.
CallAlphabeta ==
    /\ pc = "start"
    /\ \E max_depth \in MaxDepths(heap.problem) :
          call' = [fn |-> "alphabeta", max_depth |-> max_depth,
                   ret |-> alphabeta(heap.problem, 1, max_depth)]
    /\ pc' = "called"
    /\ UNCHANGED <<heap, input, frames, returned, log>>

NextGame ==
    \/ CallMinimax
    \/ CallAlphabeta

SpecGame == InitGame /\ [][NextGame]_vars

\* ------------------------------------------------------------------- solve
Restrict(domains, K) == [v \in K |-> domains[v]]

\* Mutation of Extend: the copy of the assignment is passed on as it is.
Extend_forgotten(assignment, variable, value) == assignment

\* Lines 201-202: the items of new_assignment, those of `assignment` and the
\* entry variable: value.
Extend(assignment, variable, value) ==
    [v \in DOMAIN assignment \cup {variable} |->
        IF v = variable THEN value ELSE assignment[v]]

\* A backtrack call: the references its arguments hold, and its locals (i
\* indexes ordered_values).
Frame(assignment, domains) ==
    [assignment |-> assignment, domains |-> domains,
     variable |-> "-", ordered_values |-> <<>>, i |-> 0]

TopFrame == frames[Len(frames)]
Top == stack[Len(stack)]
Pop == SubSeq(frames, 1, Len(frames) - 1)
SetTop(f) == [frames EXCEPT ![Len(frames)] = f]

\* Line 173: domains, a new dict with a copy of every set of problem.domains.
initial_domains(h) == copy_items(h, h.problem.domains, h.problem.variables, 1, EmptyMap)

\* Line 186: unassigned_domains, a new dict holding the sets of `domains`
\* themselves, for the keys the assignment does not hold.
unassigned_domains(h, domains, assignment) ==
    new_dict(h, Restrict(h.dicts[domains],
                         {var \in keys(h, domains) : var \notin DOMAIN h.dicts[assignment]}))

\* Mutation of copy_domains: the assigned variable keeps its entry.
copy_domains_whole(h, domains, variable) ==
    copy_items(h, domains, key_list(h, domains), 1, EmptyMap)

\* Mutation of copy_domains: `new_domains = domains`, the dict of the calling
\* backtrack itself.
copy_domains_alias(h, domains, variable) == [heap |-> h, ref |-> domains]

\* Line 205: new_domains, a new dict with a copy of every set of `domains` but
\* the one of the variable being assigned.
copy_domains(h, domains, variable) ==
    LET other(var) == var # variable IN
    copy_items(h, domains, SelectSeq(key_list(h, domains), other), 1, EmptyMap)

\* Mutation of fc_passed: the branch is entered whatever forward checking said.
fc_passed_always(fc) == TRUE

\* Line 209: `if forward_checking(problem, variable, value, new_domains):`.
fc_passed(fc) == fc.ret

\* Mutation of found: the result of the recursive call is ignored.
found_never(r) == FALSE

\* Mutation of found: the result of the first child is returned as it is.
found_always(r) == TRUE

\* Line 212: `if result is not None:`.
found(r) == r.some

\* `return r` in the innermost backtrack call: to its caller's line 212, or,
\* from the initial call, out of solve.
Return(r) ==
    /\ frames' = Pop
    /\ returned' = r
    /\ pc' = IF Len(frames) = 1 THEN "done" ELSE "resume"

\* solve, lines 164-173 and the initial call of line 222.
SolveStart ==
    /\ pc = "start"
    /\ LET oc == one_consistency(heap) IN
       IF ~oc.ret
       THEN /\ heap' = oc.heap
            /\ pc' = "done"
            /\ returned' = NoneRef
            /\ frames' = <<>>
       ELSE LET assignment == new_dict(oc.heap, EmptyMap)
                domains == initial_domains(assignment.heap)
            IN  /\ heap' = domains.heap
                /\ pc' = "enter"
                /\ returned' = returned
                /\ frames' = <<Frame(assignment.ref, domains.ref)>>
    /\ UNCHANGED <<input, log, call>>

\* backtrack, lines 178-196: the completeness test, then the choice of the
\* variable and of the order of its values.
BacktrackEnter ==
    /\ pc = "enter"
    /\ LET f == TopFrame
           assignment == heap.dicts[f.assignment]
           complete == is_complete(heap.problem, assignment)
           unassigned == unassigned_domains(heap, f.domains, f.assignment)
       IN
        /\ log' = Append(log, [ev |-> "is_complete", assignment |-> assignment,
                               ret |-> complete])
        /\ IF complete
           THEN /\ IF satisfies_constraints(heap.problem, assignment)
                   THEN Return(Some(f.assignment))
                   ELSE Return(NoneRef)
                /\ heap' = heap
           ELSE IF keys(unassigned.heap, unassigned.ref) = {}
           THEN /\ Return(NoneRef)
                /\ heap' = unassigned.heap
           ELSE LET mrv == minimum_remaining_values(unassigned.heap, unassigned.ref)
                    lcv == least_restraining_values(mrv.heap, mrv.ret, unassigned.ref)
                IN  /\ frames' = SetTop([f EXCEPT !.variable = mrv.ret,
                                                  !.ordered_values = lcv.ret,
                                                  !.i = 1])
                    /\ pc' = "loop"
                    /\ returned' = returned
                    /\ heap' = lcv.heap
    /\ UNCHANGED <<input, call>>

\* backtrack, lines 199-211 and 218: one iteration of the loop over
\* ordered_values, or the return after the last one.
BacktrackLoop ==
    /\ pc = "loop"
    /\ LET f == TopFrame IN
       IF f.i > Len(f.ordered_values)
       THEN /\ Return(NoneRef)
            /\ log' = log
            /\ heap' = heap
       ELSE LET value == f.ordered_values[f.i]
                new_assignment ==
                    new_dict(heap, Extend(heap.dicts[f.assignment], f.variable, value))
                new_domains == copy_domains(new_assignment.heap, f.domains, f.variable)
                fc == forward_checking(new_domains.heap, f.variable, value, new_domains.ref)
            IN  /\ log' = Append(log, [ev |-> "forward_checking",
                                       assignment |-> fc.heap.dicts[new_assignment.ref],
                                       ret |-> fc.ret])
                /\ returned' = returned
                /\ heap' = fc.heap
                /\ IF fc_passed(fc)
                   THEN /\ frames' = Append(frames, Frame(new_assignment.ref, new_domains.ref))
                        /\ pc' = "enter"
                   ELSE /\ frames' = SetTop([f EXCEPT !.i = f.i + 1])
                        /\ pc' = "loop"
    /\ UNCHANGED <<input, call>>

\* backtrack, lines 211-213: the recursive call has returned `result`.
BacktrackResume ==
    /\ pc = "resume"
    /\ IF found(returned)
       THEN Return(returned)
       ELSE /\ frames' = SetTop([TopFrame EXCEPT !.i = TopFrame.i + 1])
            /\ pc' = "loop"
            /\ returned' = returned
    /\ UNCHANGED <<heap, input, log, call>>

\* ------------------------------------------------------------ direct calls
\* one_consistency(problem), on a fresh problem or once more on its result.
CallOneConsistency ==
    /\ \/ pc = "start"
       \/ pc = "called" /\ call.fn = "one_consistency" /\ call.n < 2
    /\ LET oc == one_consistency(heap) IN
        /\ heap' = oc.heap
        /\ call' = [fn |-> "one_consistency", before |-> problem, ret |-> oc.ret,
                    n |-> IF pc = "start" THEN 1 ELSE 2]
    /\ pc' = "called"
    /\ UNCHANGED <<input, frames, returned, log>>

\* The three functions below are called on a preprocessed problem only: its
\* constraint list holds no unary constraint.
Preprocessed(p) == \A k \in 1 .. Len(p.constraints) : ~isUnary(p.constraints[k])

\* The dict a direct call is given: a new dict, holding for the keys K the
\* sets of problem.domains themselves (as line 186 builds its argument).
argument(h, K) == new_dict(h, Restrict(h.dicts[h.problem.domains], K))

\* minimum_remaining_values(problem, domains), domains holding the keys K.
\* `entry` is the heap the function is called in, `domains` what the dict
\* holds then and `after` what it holds when the call has returned.
CallMRV ==
    /\ pc = "start"
    /\ Preprocessed(heap.problem)
    /\ \E K \in SUBSET VarNames \ {{}} :
        LET domains == argument(heap, K)
            mrv == minimum_remaining_values(domains.heap, domains.ref)
        IN  /\ heap' = mrv.heap
            /\ call' = [fn |-> "minimum_remaining_values", entry |-> domains.heap,
                        domains |-> Value(domains.heap, domains.ref),
                        after |-> Value(mrv.heap, domains.ref),
                        ret |-> mrv.ret]
    /\ pc' = "called"
    /\ UNCHANGED <<input, frames, returned, log>>

\* least_restraining_values(problem, variable, domains).
CallLCV ==
    /\ pc = "start"
    /\ Preprocessed(heap.problem)
    /\ \E K \in SUBSET VarNames \ {{}} : \E variable \in K :
        LET domains == argument(heap, K)
            lcv == least_restraining_values(domains.heap, variable, domains.ref)
        IN  /\ heap' = lcv.heap
            /\ call' = [fn |-> "least_restraining_values", entry |-> domains.heap,
                        variable |-> variable,
                        domains |-> Value(domains.heap, domains.ref),
                        after |-> Value(lcv.heap, domains.ref),
                        ret |-> lcv.ret]
    /\ pc' = "called"
    /\ UNCHANGED <<input, frames, returned, log>>

\* The key sets of `domains` in a call of forward_checking: the variables
\* other than the assigned one, fewer (some are assigned already), or all.
FCKeys(variable) ==
    {VarNames, VarNames \ {variable}}
    \cup {VarNames \ {variable, w} : w \in VarNames \ {variable}}

\* forward_checking(problem, variable, value, domains).
CallFC ==
    /\ pc = "start"
    /\ Preprocessed(heap.problem)
    /\ \E variable \in VarNames : \E value \in Values : \E K \in FCKeys(variable) :
        LET domains == argument(heap, K)
            fc == forward_checking(domains.heap, variable, value, domains.ref)
        IN  /\ heap' = fc.heap
            /\ call' = [fn |-> "forward_checking", entry |-> domains.heap,
                        variable |-> variable, value |-> value,
                        domains |-> Value(domains.heap, domains.ref),
                        after |-> Value(fc.heap, domains.ref),
                        ret |-> fc.ret, at |-> fc.at]
    /\ pc' = "called"
    /\ UNCHANGED <<input, frames, returned, log>>

Next ==
    \/ SolveStart
    \/ BacktrackEnter
    \/ BacktrackLoop
    \/ BacktrackResume
    \/ CallOneConsistency
    \/ CallMRV
    \/ CallLCV
    \/ CallFC

Spec == Init /\ [][Next]_vars

\* The steps of solve.
NextSolve ==
    \/ SolveStart
    \/ BacktrackEnter
    \/ BacktrackLoop
    \/ BacktrackResume

\* The run of solve on an encoded puzzle.
SpecCrypt == InitCrypt /\ [][NextSolve]_vars

\* The run of solve on a problem.
SpecSolve == Init /\ [][NextSolve]_vars

\* ================================================================= claims
\* What a constraint says of an assignment, stated on the predicates directly.
Holds(constraint, assignment) ==
    IF constraint.kind = "unary"
    THEN condition1(constraint.cond, assignment[constraint.variables[1]])
    ELSE condition2(constraint.cond, assignment[constraint.variables[1]],
                    assignment[constraint.variables[2]])

\* The complete assignments over the domains of p that satisfy all of p's
\* constraints.
Solutions(p) ==
    {a \in [VarSet(p) -> Values] :
        /\ \A v \in VarSet(p) : a[v] \in p.domains[v]
        /\ \A k \in 1 .. Len(p.constraints) : Holds(p.constraints[k], a)}

UnaryIn(p) == {k \in 1 .. Len(p.constraints) : p.constraints[k].kind = "unary"}
BinaryIn(p) == {k \in 1 .. Len(p.constraints) : p.constraints[k].kind = "binary"}

\* The run of solve is over / is inside the search.
SolveDone == pc = "done"
InSolve == pc \in {"enter", "loop", "resume", "done"}

\* The events of the log.
IsCompleteCalls == {k \in 1 .. Len(log) : log[k].ev = "is_complete"}
FCCalls(r) == {k \in 1 .. Len(log) : log[k].ev = "forward_checking" /\ log[k].ret = r}

\* C1: any assignment returned by solve assigns every variable a value and
\* satisfies every constraint the problem had on entry, unary and binary.
C1_Soundness ==
    (SolveDone /\ result.some) =>
        /\ DOMAIN result.assignment = VarSet(input)
        /\ \A k \in 1 .. Len(input.constraints) :
              Holds(input.constraints[k], result.assignment)

\* C1 witness: solve has returned an assignment for a problem that came with
\* a binary constraint and a unary constraint that removed a value.
C1_Witness ==
    /\ SolveDone /\ result.some
    /\ UnaryIn(input) # {} /\ BinaryIn(input) # {}
    /\ problem.domains # input.domains

\* C2: if the problem on entry has a satisfying complete assignment, solve
\* returns an assignment; it returns None only when there is none.
C2_Completeness ==
    SolveDone => (result.some <=> Solutions(input) # {})

\* C2 witness: solve found an assignment of a solvable problem after forward
\* checking pruned a value and after a branch it had entered failed.
C2_Witness ==
    /\ SolveDone /\ result.some /\ Solutions(input) # {}
    /\ FCCalls(FALSE) # {}
    /\ \E k \in IsCompleteCalls : \E v \in DOMAIN log[k].assignment :
          log[k].assignment[v] # result.assignment[v]

\* C3: is_complete is called once per backtrack call: first for the empty
\* assignment, then right after each forward check that returned true, for the
\* assignment that check extended, and never for an assignment whose forward
\* check returned false; so the calls number 1 + the true forward checks.
C3_NodeCounting ==
    InSolve =>
        /\ \A k \in IsCompleteCalls :
              IF k = 1 THEN log[k].assignment = EmptyMap
              ELSE /\ k - 1 \in FCCalls(TRUE)
                   /\ log[k - 1].assignment = log[k].assignment
        /\ \A k \in FCCalls(TRUE) :
              IF k = Len(log) THEN pc = "enter" ELSE k + 1 \in IsCompleteCalls
        /\ \A j, k \in IsCompleteCalls : j # k => log[j].assignment # log[k].assignment
        /\ \A j \in FCCalls(FALSE) : \A k \in IsCompleteCalls :
              log[j].assignment # log[k].assignment
        /\ (log = <<>>) => (pc = "enter" \/ (pc = "done" /\ stack = <<>> /\ ~result.some))
        /\ (pc # "enter" /\ log # <<>>) =>
              Cardinality(IsCompleteCalls) = 1 + Cardinality(FCCalls(TRUE))

\* C3 witness: a finished run in which forward checking returned true and
\* returned false, with three or more completeness tests.
C3_Witness ==
    /\ SolveDone
    /\ FCCalls(FALSE) # {}
    /\ Cardinality(FCCalls(TRUE)) >= 2
    /\ Cardinality(IsCompleteCalls) = 1 + Cardinality(FCCalls(TRUE))

\* A unary constraint of p whose predicate rejects every value of the domain
\* of its variable.
Infeasible(p) ==
    \E k \in UnaryIn(p) :
        \A x \in p.domains[p.constraints[k].variables[1]] :
            ~condition1(p.constraints[k].cond, x)

\* C4: if a unary constraint rejects every value of its variable's domain,
\* one_consistency returns false and solve returns None without having called
\* is_complete, forward_checking or having entered backtrack.
C4_InfeasiblePreprocessing ==
    /\ (InSolve /\ Infeasible(input)) =>
          /\ pc = "done" /\ result = None /\ log = <<>> /\ stack = <<>>
    /\ (pc = "called" /\ call.fn = "one_consistency" /\ call.n = 1 /\ Infeasible(input)) =>
          call.ret = FALSE

\* C4 witness: solve is over on a problem whose infeasible unary constraint is
\* followed by a unary constraint that leaves its own domain non-empty.
C4_Witness ==
    /\ SolveDone /\ Infeasible(input) /\ result = None
    /\ \E j, k \in UnaryIn(input) :
          /\ j < k
          /\ \A x \in input.domains[input.constraints[j].variables[1]] :
                ~condition1(input.constraints[j].cond, x)
          /\ \E x \in input.domains[input.constraints[k].variables[1]] :
                condition1(input.constraints[k].cond, x)
          /\ input.constraints[j].variables[1] # input.constraints[k].variables[1]

\* ------------------------------------------------- one_consistency, C5, C6
IsNonUnary(constraint) == constraint.kind # "unary"

\* The variable a unary constraint names.
UnaryVar(p, k) == p.constraints[k].variables[1]

\* `after` is `before` preprocessed: every domain holds exactly the values
\* that all unary constraints on its variable accept, and the constraint list
\* is the list of the non-unary constraints.
Preprocesses(before, after) ==
    /\ after.variables = before.variables
    /\ DOMAIN after.domains = DOMAIN before.domains
    /\ \A v \in DOMAIN before.domains :
          after.domains[v] =
              {x \in before.domains[v] :
                  \A k \in UnaryIn(before) :
                      UnaryVar(before, k) = v => condition1(before.constraints[k].cond, x)}
    /\ UnaryIn(after) = {}
    /\ after.constraints = SelectSeq(before.constraints, IsNonUnary)

OCCalled == pc = "called" /\ call.fn = "one_consistency"

\* C5: after one_consistency (returning true or false) every domain is the set
\* of its original values that satisfy all unary constraints on the variable,
\* and the constraint list holds the original non-unary constraints and no
\* unary one; this holds of the call solve makes and of direct calls.
C5_PreprocessingSoundness ==
    /\ InSolve => Preprocesses(input, problem)
    /\ OCCalled => (Preprocesses(call.before, problem) /\ Preprocesses(input, problem))

\* C5 witness: one_consistency returned false, and a unary constraint that
\* comes after the one that emptied a domain has removed a value of another
\* variable.
C5_Witness ==
    /\ OCCalled /\ call.n = 1 /\ call.ret = FALSE
    /\ \E j, k \in UnaryIn(input) :
          /\ j < k
          /\ UnaryVar(input, j) # UnaryVar(input, k)
          /\ problem.domains[UnaryVar(input, j)] = {}
          /\ input.domains[UnaryVar(input, j)] # {}
          /\ problem.domains[UnaryVar(input, k)] # input.domains[UnaryVar(input, k)]
          /\ problem.domains[UnaryVar(input, k)] # {}

\* C6 as stated: one_consistency returns false if and only if some variable of
\* the problem has an empty domain after the call.
C6_Original ==
    OCCalled => (call.ret = FALSE <=> \E v \in DOMAIN problem.domains : problem.domains[v] = {})

\* C6 amended: one_consistency returns false if and only if some variable
\* named by a unary constraint of the problem (as it was at the call) has an
\* empty domain after the call.
C6_ReturnValue ==
    OCCalled =>
        (call.ret = FALSE <=>
            \E k \in UnaryIn(call.before) : problem.domains[UnaryVar(call.before, k)] = {})

\* C6 witness: one_consistency, called on a problem that holds a unary
\* constraint, returned true although a domain is empty (no unary constraint
\* names that variable).
C6_Witness ==
    /\ OCCalled /\ call.ret = TRUE
    /\ \E v \in DOMAIN problem.domains : problem.domains[v] = {}
    /\ UnaryIn(call.before) # {}

\* ----------------------------------------------- forward_checking, C7, C8
\* The binary constraints of p that touch X and whose other variable is a key
\* of domains, by their index in p.constraints.
Relevant(p, X, domains) ==
    {k \in BinaryIn(p) :
        /\ X \in {p.constraints[k].variables[1], p.constraints[k].variables[2]}
        /\ \E Y \in DOMAIN domains :
              Y # X /\ Y \in {p.constraints[k].variables[1], p.constraints[k].variables[2]}}

\* The other endpoint of constraint k.
OtherOf(p, k, X) ==
    CHOOSE Y \in {p.constraints[k].variables[1], p.constraints[k].variables[2]} : Y # X

\* Constraint k accepts X = a together with its other variable = y, the
\* predicate taking its arguments in the declared order of the variables.
Accepts(p, k, X, a, y) ==
    IF p.constraints[k].variables[1] = X
    THEN condition2(p.constraints[k].cond, a, y)
    ELSE condition2(p.constraints[k].cond, y, a)

\* The values of domains[Y] accepted by the constraints of K that link X and Y.
Filtered(p, K, X, a, Y, domains) ==
    {y \in domains[Y] : \A k \in K : OtherOf(p, k, X) = Y => Accepts(p, k, X, a, y)}

FCCalled == pc = "called" /\ call.fn = "forward_checking"

\* forward_checking(p, X, a, domains) returned true and left `after`.
FCSuccess(p, X, a, domains, after) ==
    LET R == Relevant(p, X, domains) IN
    /\ DOMAIN after = DOMAIN domains
    /\ \A Y \in DOMAIN domains :
          IF \E k \in R : OtherOf(p, k, X) = Y
          THEN after[Y] = Filtered(p, R, X, a, Y, domains) /\ after[Y] # {}
          ELSE after[Y] = domains[Y]

\* C7: when forward_checking returns true, the domain of every neighbour of X
\* in domains is the set of its prior values that satisfy every binary
\* constraint between X and it (arguments in declared order) and is not empty;
\* all other entries are unchanged and the keys are the same. This holds of
\* direct calls and of the calls of backtrack (the domains the new backtrack
\* call is entered with).
C7_ForwardCheckingSuccess ==
    /\ (FCCalled /\ call.ret) =>
          FCSuccess(problem, call.variable, call.value, call.domains, call.after)
    /\ (pc = "enter" /\ Len(stack) > 1) =>
          LET parent == stack[Len(stack) - 1] IN
          FCSuccess(problem, parent.variable, parent.ordered_values[parent.i],
                    Restrict(parent.domains, DOMAIN parent.domains \ {parent.variable}),
                    Top.domains)

\* C7 witness: a true forward check over two constraints between X and the
\* same neighbour, X being the second variable of one of them, that removed a
\* value, while X itself is a key of domains.
C7_Witness ==
    /\ FCCalled /\ call.ret
    /\ call.variable \in DOMAIN call.domains
    /\ \E j, k \in Relevant(problem, call.variable, call.domains) :
          /\ j # k
          /\ OtherOf(problem, j, call.variable) = OtherOf(problem, k, call.variable)
          /\ problem.constraints[k].variables[2] = call.variable
          /\ call.after[OtherOf(problem, k, call.variable)]
                # call.domains[OtherOf(problem, k, call.variable)]

\* The relevant constraints at which the recomputed domain of the neighbour
\* (its values accepted by the relevant constraints up to that one) is empty.
DeadEnds(p, X, a, domains) ==
    LET R == Relevant(p, X, domains) IN
    {k \in R : Filtered(p, {j \in R : j <= k}, X, a, OtherOf(p, k, X), domains) = {}}

SetMin(S) == CHOOSE x \in S : \A y \in S : x <= y

\* C8: forward_checking returns false exactly when the recomputed domain of
\* some neighbour is empty; it returns at the first such constraint, the
\* domains holding the effect of the constraints before it and of no later
\* one; it returns true only after the last constraint.
C8_ForwardCheckingDeadEnd ==
    FCCalled =>
        LET D == DeadEnds(problem, call.variable, call.value, call.domains)
            R == Relevant(problem, call.variable, call.domains)
        IN  /\ call.ret = FALSE <=> D # {}
            /\ D # {} =>
                  /\ call.at = SetMin(D)
                  /\ DOMAIN call.after = DOMAIN call.domains
                  /\ \A Y \in DOMAIN call.domains :
                        call.after[Y] =
                            Filtered(problem, {j \in R : j < call.at}, call.variable,
                                     call.value, Y, call.domains)
            /\ D = {} => call.at = Len(problem.constraints) + 1

\* C8 witness: forward_checking returned false at a constraint that is
\* followed by a relevant constraint which would have narrowed the domain of
\* another neighbour.
C8_Witness ==
    /\ FCCalled /\ call.ret = FALSE
    /\ \E j \in Relevant(problem, call.variable, call.domains) :
          /\ j > call.at
          /\ OtherOf(problem, j, call.variable) # OtherOf(problem, call.at, call.variable)
          /\ Filtered(problem, {j}, call.variable, call.value,
                      OtherOf(problem, j, call.variable), call.domains)
                # call.domains[OtherOf(problem, j, call.variable)]

\* ------------------------------------------------------- MRV and LCV, C9, C10
IndexOf(p, v) == CHOOSE i \in 1 .. Len(p.variables) : p.variables[i] = v

MRVCalled == pc = "called" /\ call.fn = "minimum_remaining_values"

\* `chosen` is a key of domains of minimal domain size and, among those, of
\* the smallest index in p.variables.
MRVChoice(p, domains, chosen) ==
    /\ chosen \in DOMAIN domains
    /\ \A Y \in DOMAIN domains :
          /\ Cardinality(domains[chosen]) <= Cardinality(domains[Y])
          /\ Cardinality(domains[chosen]) = Cardinality(domains[Y])
                => IndexOf(p, chosen) <= IndexOf(p, Y)

\* The innermost backtrack call has just chosen its variable and the order of
\* its values.
JustChosen == pc = "loop" /\ Top.i = 1

\* What backtrack passes to the two heuristics.
UnassignedDomains(f) ==
    Restrict(f.domains, {v \in DOMAIN f.domains : v \notin DOMAIN f.assignment})

\* C9: minimum_remaining_values returns a key of domains with a domain of
\* minimal size and, among those, the one of smallest index in
\* problem.variables, whatever the names; in direct calls and in backtrack.
C9_MRVSelection ==
    /\ MRVCalled => MRVChoice(problem, call.domains, call.ret)
    /\ JustChosen => MRVChoice(problem, UnassignedDomains(Top), Top.variable)

\* C9 witness: a tie for the smallest domain between two variables whose
\* index order is the reverse of the order of their names; the one of smaller
\* index was returned.
C9_Witness ==
    /\ MRVCalled
    /\ \E Y \in DOMAIN call.domains :
          /\ Y # call.ret
          /\ Cardinality(call.domains[Y]) = Cardinality(call.domains[call.ret])
          /\ NameRank(Y) < NameRank(call.ret)
          /\ \E W \in DOMAIN call.domains :
                Cardinality(call.domains[W]) > Cardinality(call.domains[Y])

LCVCalled == pc = "called" /\ call.fn = "least_restraining_values"

\* The restraint score of X = v: the pairs (constraint, neighbour value) it
\* eliminates, over the binary constraints that touch X and whose other
\* variable is a key of domains.
Score(p, X, v, domains) ==
    Cardinality({q \in Relevant(p, X, domains) \X Values :
                    /\ q[2] \in domains[OtherOf(p, q[1], X)]
                    /\ ~Accepts(p, q[1], X, v, q[2])})

\* `order` lists every value of domains[X] once, by ascending score and, for
\* equal scores, by ascending value.
LCVOrder(p, X, domains, order) ==
    LET score == [v \in domains[X] |-> Score(p, X, v, domains)] IN
    /\ Len(order) = Cardinality(domains[X])
    /\ {order[i] : i \in 1 .. Len(order)} = domains[X]
    /\ \A i \in 1 .. Len(order) : \A j \in i + 1 .. Len(order) :
          \/ score[order[i]] < score[order[j]]
          \/ score[order[i]] = score[order[j]] /\ order[i] < order[j]

\* C10: least_restraining_values returns each value of domains[X] once, sorted
\* by ascending restraint score and then by ascending value, a neighbour linked
\* by several constraints being counted once per constraint; in direct calls
\* and in backtrack.
C10_LCVOrdering ==
    /\ LCVCalled => LCVOrder(problem, call.variable, call.domains, call.ret)
    /\ JustChosen =>
          LCVOrder(problem, Top.variable, UnassignedDomains(Top), Top.ordered_values)

\* C10 witness: an order that is not the ascending order of the values, with
\* two values of equal score, for a variable linked to one neighbour by two
\* constraints.
C10_Witness ==
    /\ LCVCalled
    /\ \E i \in 1 .. Len(call.ret) - 1 : call.ret[i] > call.ret[i + 1]
    /\ \E i \in 1 .. Len(call.ret) - 1 :
          /\ call.ret[i] < call.ret[i + 1]
          /\ Score(problem, call.variable, call.ret[i], call.domains)
                = Score(problem, call.variable, call.ret[i + 1], call.domains)
    /\ \E j, k \in Relevant(problem, call.variable, call.domains) :
          j # k /\ OtherOf(problem, j, call.variable) = OtherOf(problem, k, call.variable)

\* ------------------------------------------------------------ read-only, C11
\* Every object of heap h is in heap g what it was in h: the attributes of the
\* Problem object, the entries of each dict, the content of each set.
SameObjects(h, g) ==
    /\ g.problem = h.problem
    /\ Len(g.dicts) >= Len(h.dicts)
    /\ \A d \in 1 .. Len(h.dicts) : g.dicts[d] = h.dicts[d]
    /\ Len(g.sets) >= Len(h.sets)
    /\ \A s \in 1 .. Len(h.sets) : g.sets[s] = h.sets[s]

\* C11: a call of minimum_remaining_values or least_restraining_values leaves
\* every object that exists when it is called as it was: the dict passed as
\* `domains` (its keys and each of its sets) and the problem (variables,
\* domains, constraints). So it is in a direct call, and in the step of
\* backtrack that builds unassigned_domains and calls the two functions.
C11_HeuristicsReadOnly ==
    [][/\ (pc = "start" /\ (MRVCalled' \/ LCVCalled')) =>
              /\ SameObjects(call'.entry, heap')
              /\ call'.after = call'.domains
              /\ problem' = problem
       /\ (pc = "enter" /\ pc' = "loop") =>
              /\ SameObjects(heap, heap')
              /\ problem' = problem
              /\ \A k \in 1 .. Len(stack) :
                    /\ stack'[k].domains = stack[k].domains
                    /\ stack'[k].assignment = stack[k].assignment]_vars

\* C11 witness: least_restraining_values has ranked values of which the
\* smallest would empty or narrow a neighbour's domain; it has stored the
\* counts in a dict of its own, and the neighbour's domain is as it was.
C11_Witness ==
    /\ LCVCalled
    /\ Len(call.ret) > 1
    /\ Score(problem, call.variable, SetMin(call.domains[call.variable]), call.domains) > 0
    /\ Len(heap.dicts) > Len(call.entry.dicts)
    /\ DOMAIN heap.dicts[Len(heap.dicts)] = call.domains[call.variable]
    /\ call.after = call.domains

\* ------------------------------------------------------- the encoder, C12
\* The number a word spells under an assignment of digits to its letters.
RECURSIVE Number(_, _, _)
Number(word, a, k) ==
    IF k = 0 THEN 0 ELSE 10 * Number(word, a, k - 1) + a[word[k]]

\* The digit of a word in column i (0 where the word has no letter there).
DigitAt(word, a, i) == IF Len(word) - i >= 1 THEN a[word[Len(word) - i]] ELSE 0

\* C12: every assignment solve returns for an encoded puzzle spells a true
\* sum, LHS0 + LHS1 = RHS, and in every column SUMi is digit0 + digit1 +
\* carry_in and is the result digit + 10 * carry_out.
C12_EncodingFaithful ==
    (SolveDone /\ result.some) =>
        LET a == result.assignment IN
        /\ Number(input.LHS[1], a, Len(input.LHS[1]))
              + Number(input.LHS[2], a, Len(input.LHS[2]))
              = Number(input.RHS, a, Len(input.RHS))
        /\ \A i \in 0 .. Len(input.RHS) - 1 :
              /\ a[sum_var(i)] = DigitAt(input.LHS[1], a, i) + DigitAt(input.LHS[2], a, i)
                                    + a[carry_name(i)]
              /\ a[sum_var(i)] = DigitAt(input.RHS, a, i) + 10 * a[carry_name(i + 1)]

\* -------------------------------------------------------- game search, C13
ABCalled == pc = "called" /\ call.fn = "alphabeta"

\* C13: alphabeta returns the tree value and the best action that minimax
\* returns for the same game, state and depth limit.
C13_AlphaBetaAgreesWithMinimax ==
    ABCalled =>
        LET mm == minimax(input, 1, call.max_depth) IN
        /\ call.ret.value = mm.value
        /\ call.ret.action = mm.action

\* C13 witness: alphabeta skipped part of the tree that minimax visits, below
\* a root with two actions of equal value.
C13_Witness ==
    /\ ABCalled
    /\ call.ret.calls < minimax(input, 1, call.max_depth).calls
    /\ call.ret.action # 0
    /\ \E i, j \in 1 .. input.n : input.score[i] # input.score[j]
    /\ \E a \in 2 .. input.n :
          /\ a # call.ret.action /\ input.parent[a] = 1
          /\ minimax_value(input, a, 1, call.max_depth).value = call.ret.value

\* ------------------------------------------------------- copy isolation, C14
\* The values of the variable of backtrack call k that were tried before the
\* current one and whose forward check returned r.
Tried(k, r) ==
    {j \in 1 .. stack[k].i - 1 :
        \E e \in FCCalls(r) :
            log[e].assignment = Extend(stack[k].assignment, stack[k].variable,
                                       stack[k].ordered_values[j])}

\* C14: no step of the search changes the domains map or the assignment of a
\* backtrack call that is still active: they are the same after a child
\* attempt as before it, whether forward checking pruned it or the recursive
\* call failed, so every sibling value is checked against the same domains.
C14_CopyIsolation ==
    [][\A k \in 1 .. Len(stack) :
          k <= Len(stack') =>
              /\ stack'[k].domains = stack[k].domains
              /\ stack'[k].assignment = stack[k].assignment]_vars

\* C14 witness: a backtrack call is about to try a further value after the
\* recursive call for an earlier value failed, the forward check of that
\* earlier value having narrowed a domain of its copy.
C14_Witness ==
    /\ pc = "loop" /\ Top.i <= Len(Top.ordered_values)
    /\ \E j \in Tried(Len(stack), TRUE) :
          LET new_domains == copy_domains(heap, TopFrame.domains, Top.variable)
              fc == forward_checking(new_domains.heap, Top.variable,
                                     Top.ordered_values[j], new_domains.ref)
          IN  Value(fc.heap, new_domains.ref) # Value(new_domains.heap, new_domains.ref)

\* ------------------------------------------------------ working domains, C15
\* C15: in every backtrack call of solve, the keys of domains are exactly the
\* variables of the problem that the assignment does not hold, and every
\* domain is a subset of the domain the variable has in the calling backtrack
\* call (in the preprocessed problem, for the initial call).
C15_WorkingDomains ==
    InSolve =>
        \A k \in 1 .. Len(stack) :
            /\ DOMAIN stack[k].domains = VarSet(problem) \ DOMAIN stack[k].assignment
            /\ \A Y \in DOMAIN stack[k].domains :
                  stack[k].domains[Y] \subseteq
                      (IF k = 1 THEN problem.domains[Y] ELSE stack[k - 1].domains[Y])

\* C15 witness: a backtrack call two levels below the initial one, entered
\* with a domain smaller than in its caller, which had itself been entered
\* with a domain smaller than in the initial call.
C15_Witness ==
    /\ pc = "enter" /\ Len(stack) = 3
    /\ \E Y \in DOMAIN stack[3].domains : stack[3].domains[Y] # stack[2].domains[Y]
    /\ \E Y \in DOMAIN stack[2].domains : stack[2].domains[Y] # stack[1].domains[Y]

\* ------------------------------------------------------ first solution, C16
\* C16: once a recursive backtrack call has returned an assignment, the next
\* step of its caller is to return that assignment, without any further call
\* of forward_checking or is_complete; and the assignment solve returns is
\* the one of the last completeness test, the only test that found a complete
\* assignment, hence the first complete assignment met by the search.
C16_FirstSolution ==
    [][/\ (pc = "resume" /\ result.some) =>
              /\ result' = result
              /\ log' = log
              /\ stack' = SubSeq(stack, 1, Len(stack) - 1)
              /\ pc' \in {"resume", "done"}
       /\ (pc # "done" /\ pc' = "done" /\ result'.some) =>
              /\ log' # <<>>
              /\ log'[Len(log')].ev = "is_complete"
              /\ log'[Len(log')].ret
              /\ log'[Len(log')].assignment = result'.assignment
              /\ \A k \in 1 .. Len(log') - 1 :
                    log'[k].ev = "is_complete" => ~log'[k].ret]_vars

\* C16 witness: an assignment is being returned to a backtrack call, itself a
\* recursive call, that still has values it has not tried.
C16_Witness ==
    /\ pc = "resume" /\ result.some
    /\ Len(stack) >= 2
    /\ Top.i < Len(Top.ordered_values)

\* ------------------------------------------- consistent partial assignments, C17
\* C17: every assignment a backtrack call was given satisfies each binary
\* constraint whose two variables it holds and takes each value from the
\* preprocessed domain of its variable; so a complete assignment reached by
\* the search satisfies the constraints, and backtrack never returns None for
\* a complete assignment.
C17_ConsistentAssignments ==
    InSolve =>
        /\ \A k \in 1 .. Len(stack) :
              LET a == stack[k].assignment IN
              /\ \A c \in BinaryIn(problem) :
                    (/\ problem.constraints[c].variables[1] # problem.constraints[c].variables[2]
                     /\ problem.constraints[c].variables[1] \in DOMAIN a
                     /\ problem.constraints[c].variables[2] \in DOMAIN a)
                        => Holds(problem.constraints[c], a)
              /\ \A v \in DOMAIN a : a[v] \in problem.domains[v]
        /\ (pc = "enter" /\ is_complete(problem, Top.assignment))
              => satisfies_constraints(problem, Top.assignment)
        /\ (pc \in {"resume", "done"} /\ log # <<>> /\ log[Len(log)].ev = "is_complete"
               /\ log[Len(log)].ret) => result.some

\* C17 witness: a backtrack call is entered with a complete assignment that
\* satisfies two binary constraints on different pairs of variables, in a
\* search in which forward checking has pruned a value.
C17_Witness ==
    /\ pc = "enter" /\ is_complete(problem, Top.assignment)
    /\ FCCalls(FALSE) # {}
    /\ \E j, k \in BinaryIn(problem) :
          /\ {problem.constraints[j].variables[1], problem.constraints[j].variables[2]}
                # {problem.constraints[k].variables[1], problem.constraints[k].variables[2]}
          /\ Holds(problem.constraints[j], Top.assignment)
          /\ Holds(problem.constraints[k], Top.assignment)

\* ------------------------------------------------------- frozen problem, C18
\* C18: once one_consistency has returned inside solve, no step changes
\* problem.variables, problem.domains or problem.constraints: they stay as
\* preprocessing left them, the pruning being done on the working copies.
C18_ProblemFrozen ==
    [][InSolve => (/\ problem' = problem
                   /\ Preprocesses(input, problem'))]_vars

\* C18 witness: inside the search, after preprocessing has removed a value,
\* the working copy of a domain is smaller than the domain in the problem.
C18_Witness ==
    /\ pc = "enter" /\ Len(stack) >= 2
    /\ problem.domains # input.domains
    /\ \E Y \in DOMAIN Top.domains : Top.domains[Y] # problem.domains[Y]

\* ------------------------------------------------- termination and depth, C19
\* The initial backtrack call has the empty assignment, each recursive call
\* an assignment with exactly one variable more than its caller's, and the
\* calls nested below the initial one are no more than the variables.
DepthBound ==
    /\ stack # <<>> => stack[1].assignment = EmptyMap
    /\ \A k \in 2 .. Len(stack) :
          \E v \in VarSet(problem) \ DOMAIN stack[k - 1].assignment :
              DOMAIN stack[k].assignment = DOMAIN stack[k - 1].assignment \cup {v}
    /\ Len(stack) - 1 <= Len(problem.variables)

\* How far backtrack call k has got: with its i-th value it is about to run
\* forward checking (3i), waits for the recursive call (3i + 1) or has got
\* its result (3i + 2); 0 before it has chosen its variable.
Progress(k) ==
    IF k < Len(stack) THEN 3 * stack[k].i + 1
    ELSE IF pc = "resume" THEN 3 * stack[k].i + 2
    ELSE 3 * stack[k].i

\* More than the progress of any backtrack call: i is at most one more than
\* the number of values of a domain.
RankBase == 3 * (MaxVal + 2) + 3

RECURSIVE Power(_, _)
Power(b, e) == IF e = 0 THEN 1 ELSE b * Power(b, e - 1)

RECURSIVE RankFrom(_)
RankFrom(k) ==
    IF k > Len(stack) THEN 0
    ELSE Progress(k) * Power(RankBase, Len(problem.variables) + 1 - k) + RankFrom(k + 1)

\* The position of the search in its depth-first traversal.
RankMax == Power(RankBase, Len(problem.variables) + 1)
Rank ==
    IF pc = "start" THEN 0
    ELSE IF pc = "done" THEN RankMax + 1
    ELSE 1 + RankFrom(1)

\* solve has not returned and is at a statement of an active backtrack call:
\* its completeness test, its loop (the variable chosen) or the return of a
\* recursive call.
Running ==
    /\ stack # <<>>
    /\ \/ pc = "enter" /\ Top.i = 0
       \/ pc = "loop" /\ Top.i \in 1 .. Len(Top.ordered_values) + 1
       \/ pc = "resume" /\ Top.i \in 1 .. Len(Top.ordered_values)

\* C19: solve terminates: every step takes the search further in a traversal
\* of bounded length, and until solve has returned it is at a statement that
\* has a next step; each recursive call has one variable more than its
\* caller, so the nesting stays within the number of variables.
C19_Termination ==
    [][/\ Rank' > Rank
       /\ Rank' <= RankMax + 1
       /\ SolveDone' \/ Running'
       /\ DepthBound']_vars

\* C19 witness: solve has returned None after a search that nested backtrack
\* calls and exhausted the values of the first variable.
C19_Witness ==
    /\ SolveDone /\ ~result.some
    /\ Cardinality(IsCompleteCalls) >= 3
    /\ \A k \in IsCompleteCalls : ~log[k].ret

\* --------------------------------------- domains after a failed check, C20
\* C20: when forward_checking returns false, at constraint `at` on neighbour
\* W: W's entry is what the constraints before `at` left of it, not the empty
\* set that constraint `at` would leave; the other neighbours keep what the
\* constraints before `at` left of them, and no later constraint has acted;
\* so an entry is empty after the call only if it was empty before it.
C20_FailedCheckDomains ==
    (FCCalled /\ ~call.ret) =>
        LET X == call.variable
            R == Relevant(problem, X, call.domains)
            before == {j \in R : j < call.at}
            W == OtherOf(problem, call.at, X)
        IN  /\ call.at \in R
            /\ DOMAIN call.after = DOMAIN call.domains
            /\ Filtered(problem, before \cup {call.at}, X, call.value, W, call.domains) = {}
            /\ call.after[W] = Filtered(problem, before, X, call.value, W, call.domains)
            /\ \A Y \in DOMAIN call.domains :
                  /\ (\E j \in before : OtherOf(problem, j, X) = Y) =>
                        call.after[Y] = Filtered(problem, before, X, call.value, Y,
                                                 call.domains)
                  /\ (\A j \in before : OtherOf(problem, j, X) # Y) =>
                        call.after[Y] = call.domains[Y]
                  /\ call.after[Y] = {} => call.domains[Y] = {}

\* C20 witness: forward_checking returned false at its second relevant
\* constraint, after the first one narrowed a domain, and no domain is empty.
C20_Witness ==
    /\ FCCalled /\ ~call.ret
    /\ \E Y \in DOMAIN call.domains : call.after[Y] # call.domains[Y]
    /\ \A Y \in DOMAIN call.after : call.after[Y] # {}

====
